---- MODULE Spec2Model ----
(***************************************************************************)
(* Katfish: iterative-deepening negamax search with a transposition table  *)
(* (src/engine.py), and the incremental NNUE accumulator                    *)
(* (src/katfish_nnue.py).                                                   *)
(*                                                                         *)
(* The rules of chess live in the python-chess library, which the engine   *)
(* only consumes through an interface (legal_moves, push, pop, is_check,   *)
(* is_checkmate, ...).  The search is therefore run over a finite game     *)
(* graph, Universe, that answers exactly those calls: every position has   *)
(* a side to move, an in-check flag, an insufficient-material flag, the    *)
(* material+PSQT sum from White's view and its ordered legal moves.        *)
(***************************************************************************)
EXTENDS Integers, Sequences, FiniteSets, TLC

\* ------------------------------------------------------------------ bounds
MaxDepth == 3          \* best_move is called with max_depth in 1..MaxDepth
MaxMinDepth == 2       \* ... and min_depth in 1..MaxMinDepth
MaxCalls == 2          \* best_move calls made on one Engine
MaxPly == 3            \* evaluate is called with ply_from_root in 0..MaxPly
MaxPlies == 3          \* plies played in the window, the engine's reply included
MaxReplyDepth == 2     \* iterations best_move completes within the time limit

\* --------------------------------------------------------------- constants
MATE_VAL == 100000
Inf == 1000000         \* math.inf: above every score, Inf = -(-Inf)
EXACT == 0
LOWER == 1
UPPER == 2

\* ------------------------------------------------------------ the universe
Mv(n, t, c, pr) == [name |-> n, to |-> t, cap |-> c, promo |-> pr]

\* Python's None where a move is expected.
NoMove == [name |-> "None", to |-> 0, cap |-> FALSE, promo |-> FALSE]

Position(w, ch, ins, s, ms) ==
  [turn |-> w, chk |-> ch, insuff |-> ins, sc |-> s, moves |-> ms]

\* turn = TRUE: White to move.  Every move leads to a position of the other
\* side; the quiet cycle 1-2-3-4 is a shuffle of reversible moves; captures
\* and promotions are irreversible and the two sides cannot check each other
\* for ever, so no cycle consists of tactical moves (captures, promotions,
\* checks) alone, while one side may well check for ever (21-22-23-24).
Universe ==
  << \* 1..4: quiet cycle of reversible moves
     Position(TRUE,  FALSE, FALSE,  10, << Mv("Ng1f3", 2, FALSE, FALSE) >>),
     Position(FALSE, FALSE, FALSE,  30, << Mv("Ng8f6", 3, FALSE, FALSE) >>),
     Position(TRUE,  FALSE, FALSE,  20, << Mv("Nf3g1", 4, FALSE, FALSE) >>),
     Position(FALSE, FALSE, FALSE,   0, << Mv("Nf6g8", 1, FALSE, FALSE) >>),
     \* 5..8: forced mate: 5 mates at ply 3, 7 mates at ply 1, 8 is mated
     Position(TRUE,  FALSE, FALSE,   0, << Mv("Kg1g2", 6, FALSE, FALSE) >>),
     Position(FALSE, FALSE, FALSE,   0, << Mv("Kh8g8", 7, FALSE, FALSE) >>),
     Position(TRUE,  FALSE, FALSE,   0, << Mv("Ra1a8", 8, FALSE, FALSE),
                                           Mv("Ra1a2", 2, FALSE, FALSE) >>),
     Position(FALSE, TRUE,  FALSE,   0, << >>),
     \* 9..10: a mate threat met inside a finite window
     Position(TRUE,  FALSE, FALSE,   5, << Mv("h2h3", 4, FALSE, FALSE),
                                           Mv("a2a3", 10, FALSE, FALSE) >>),
     Position(FALSE, FALSE, FALSE,   5, << Mv("h7h6", 13, FALSE, FALSE),
                                           Mv("a7a6", 7, FALSE, FALSE) >>),
     \* 11..15: captures, a recapture, a promotion and a check that is no mate
     Position(TRUE,  FALSE, FALSE,   0, << Mv("Nb1c3", 2, FALSE, FALSE),
                                           Mv("e4d5", 12, TRUE, FALSE),
                                           Mv("Bf1b5", 14, FALSE, FALSE) >>),
     Position(FALSE, FALSE, FALSE, 100, << Mv("Nb8c6", 3, FALSE, FALSE),
                                           Mv("Qd8d5", 13, TRUE, FALSE) >>),
     Position(TRUE,  FALSE, FALSE,   0, << Mv("Ng1e2", 4, FALSE, FALSE),
                                           Mv("b7b8q", 15, FALSE, TRUE) >>),
     Position(FALSE, TRUE,  FALSE,  15, << Mv("c7c6", 3, FALSE, FALSE) >>),
     Position(FALSE, FALSE, FALSE, 800, << Mv("Qd5d8", 1, FALSE, FALSE) >>),
     \* 16..20: king and bishop against king (insufficient material);
     \* 18 is stalemate
     Position(FALSE, FALSE, TRUE,  330, << Mv("Ka8b8", 17, FALSE, FALSE) >>),
     Position(TRUE,  FALSE, TRUE,  330, << Mv("Ba6b7", 18, FALSE, FALSE),
                                           Mv("Ba6c4", 19, FALSE, FALSE) >>),
     Position(FALSE, FALSE, TRUE,  330, << >>),
     Position(FALSE, FALSE, TRUE,  340, << Mv("Kb8a8", 20, FALSE, FALSE) >>),
     Position(TRUE,  FALSE, TRUE,  340, << Mv("Bc4a6", 16, FALSE, FALSE) >>),
     \* 21..24: perpetual check: the queen checks from e8 and h5, the king
     \* steps between g8 and h7
     Position(TRUE,  FALSE, FALSE, -300, << Mv("Qh5e8", 22, FALSE, FALSE) >>),
     Position(FALSE, TRUE,  FALSE, -300, << Mv("Kg8h7", 23, FALSE, FALSE) >>),
     Position(TRUE,  FALSE, FALSE, -300, << Mv("Qe8h5", 24, FALSE, FALSE) >>),
     Position(FALSE, TRUE,  FALSE, -300, << Mv("Kh7g8", 21, FALSE, FALSE) >>),
     \* 25..33: exchanges: two captures (one recaptured), a quiet move and a
     \* check answered by taking the checker; a capture that loses material
     Position(TRUE,  FALSE, FALSE,   0, << Mv("Nc3d5", 26, TRUE, FALSE),
                                           Mv("h2h4", 2, FALSE, FALSE),
                                           Mv("Bg5f6", 27, TRUE, FALSE),
                                           Mv("Qd1h5", 28, FALSE, FALSE) >>),
     Position(FALSE, FALSE, FALSE, 100, << Mv("e6d5", 29, TRUE, FALSE) >>),
     Position(FALSE, FALSE, FALSE, 150, << Mv("Kg8h8", 3, FALSE, FALSE) >>),
     Position(FALSE, TRUE,  FALSE,   0, << Mv("g6h5", 30, TRUE, FALSE),
                                           Mv("Ke8e7", 3, FALSE, FALSE) >>),
     Position(TRUE,  FALSE, FALSE, -220, << Mv("Ng1f3", 2, FALSE, FALSE) >>),
     Position(TRUE,  FALSE, FALSE, -900, << Mv("Ng1f3", 2, FALSE, FALSE) >>),
     Position(TRUE,  FALSE, FALSE,  50, << Mv("Rd1d5", 32, TRUE, FALSE) >>),
     Position(FALSE, FALSE, FALSE, 150, << Mv("c6d5", 33, TRUE, FALSE) >>),
     Position(TRUE,  FALSE, FALSE, -350, << Mv("Ng1f3", 2, FALSE, FALSE) >>)
  >>

Pos == 1..Len(Universe)

\* The positions best_move is called on.
Roots == {1, 5, 6, 7, 8, 9, 11, 16, 21}

\* ---------------------------------------------------- chess.Board interface
\* A board is the current position and the stack of moves made, each with
\* the position it was made in (what pop restores).
NewBoard(p) == [pos |-> p, stack |-> << >>]

Push(b, mv) ==
  [pos |-> mv.to, stack |-> Append(b.stack, [mv |-> mv, prev |-> b.pos])]

Pop(b) ==
  [pos |-> b.stack[Len(b.stack)].prev,
   stack |-> SubSeq(b.stack, 1, Len(b.stack) - 1)]

LegalMoves(b) == Universe[b.pos].moves
Turn(b) == Universe[b.pos].turn
IsCheck(b) == Universe[b.pos].chk
IsCheckmate(b) == IsCheck(b) /\ LegalMoves(b) = << >>
IsStalemate(b) == ~IsCheck(b) /\ LegalMoves(b) = << >>
IsInsufficientMaterial(b) == Universe[b.pos].insuff
IsGameOver(b) == IsCheckmate(b) \/ IsStalemate(b) \/ IsInsufficientMaterial(b)
IsCapture(b, mv) == mv.cap
GivesCheck(b, mv) == Universe[mv.to].chk
IsLegal(b, mv) == \E i \in 1..Len(LegalMoves(b)) : LegalMoves(b)[i] = mv

\* board_utils.tkey: the Zobrist key of placement, turn, castling and
\* en-passant square, i.e. of the position.
tkey(b) == b.pos

Max(a, b) == IF a >= b THEN a ELSE b
Min(a, b) == IF a <= b THEN a ELSE b

\* ------------------------------------------------------------------ state
VARIABLES
  board,      \* the one shared chess.Board
  tt,         \* Engine.tt: key -> TTEntry
  frames,     \* call stack of _search / _qsearch activations
  ret,        \* << >> or << v >>: the value the last call returned
  pc,         \* best_move: "idle" | "searching" | "finishing"
  depth,      \* best_move's loop variable
  max_depth, min_depth,
  best,       \* best_move's local best_move
  result,     \* what the last finished best_move call returned
  calls,      \* best_move calls started
  iters,      \* depths whose _search returned, in order (this call)
  clockReads, \* depths at which time.time() was read (this call)
  scores,     \* score of each completed iteration (this call)
  prev,       \* root and iteration scores of the previous call
  nnBoard,    \* the chess.Board the NNUE follows: placement and move stack
  nnAcc,      \* NNUE.l1, as a combination of B1 and rows of W1
  nnStack,    \* NNUE.stack
  nnErr,      \* the exception an NNUE method raised, "" when none
  nnPre,      \* per stacked move: the accumulator and board before it
  nnLast,     \* the NNUE method that ran last
  evCall,     \* the last evaluate call made on a placement: board, ply, value
  evPrev,     \* the evaluate call before it
  gBoard,     \* ChessWindow.board
  gRedo,      \* ChessWindow.redo_stack
  gSelected,  \* ChessWindow.selected: "None" or a square
  gHuman,     \* ChessWindow.human_is_white
  gStartShot, \* the single-shot timer of __init__ is pending
  gReplyTimer,\* reply_timer is active
  gTT,        \* ChessWindow.engine.tt
  gBook,      \* board_utils.BOOK_READER: 0 for None, else a book
  gLast       \* what the last engine_reply did

searchVars == << board, tt, frames, ret, pc, depth, max_depth, min_depth,
                 best, result, calls, iters, clockReads, scores, prev >>

nnVars == << nnBoard, nnAcc, nnStack, nnErr, nnPre, nnLast >>

evalVars == << evCall, evPrev >>

guiVars == << gBoard, gRedo, gSelected, gHuman, gStartShot, gReplyTimer,
              gTT, gBook, gLast >>

vars == << searchVars, nnVars, evalVars, guiVars >>

\* ------------------------------------------------------------- evaluation
Evaluate(b, ply_from_root) ==
  IF IsCheckmate(b) THEN -(MATE_VAL - ply_from_root)
  ELSE IF IsStalemate(b) \/ IsInsufficientMaterial(b) THEN 0
  ELSE IF Turn(b) THEN Universe[b.pos].sc ELSE -Universe[b.pos].sc

\* sorted(board.legal_moves, key=board.is_capture, reverse=True): stable.
SortedMoves(b) ==
  LET IsCap(m) == IsCapture(b, m)
      NotCap(m) == ~IsCapture(b, m)
  IN SelectSeq(LegalMoves(b), IsCap) \o SelectSeq(LegalMoves(b), NotCap)

\* _qsearch making every legal move.
TacticalAll(b) == LegalMoves(b)

\* The moves _qsearch makes.
Tactical(b) ==
  LET Is(m) == IsCapture(b, m) \/ m.promo \/ GivesCheck(b, m)
  IN SelectSeq(LegalMoves(b), Is)

\* The flag with a fail-low only strictly below alpha_orig.
FlagStrict(best_val, alpha_orig, beta) ==
  IF best_val < alpha_orig THEN UPPER
  ELSE IF best_val >= beta THEN LOWER
  ELSE EXACT

Flag(best_val, alpha_orig, beta) ==
  IF best_val <= alpha_orig THEN UPPER
  ELSE IF best_val >= beta THEN LOWER
  ELSE EXACT

TTEntry(d, s, f, m) == [depth |-> d, score |-> s, flag |-> f, best_move |-> m]

\* ------------------------------------------------------------ activations
\* An activation whose best_val starts at -MATE_VAL.
FrameMateSentinel(fn, b, d, a, be, ply) ==
  [fn |-> fn, pc |-> "entry", depth |-> d, alpha |-> a, beta |-> be,
   ply |-> ply, alpha_orig |-> a, best_val |-> -MATE_VAL,
   best_move |-> NoMove, moves |-> << >>, mv |-> NoMove,
   entry |-> b, alpha0 |-> a, beta0 |-> be, stand |-> << >>, seen |-> << >>]

Frame(fn, b, d, a, be, ply) ==
  [fn |-> fn, pc |-> "entry", depth |-> d, alpha |-> a, beta |-> be,
   ply |-> ply, alpha_orig |-> a, best_val |-> -Inf, best_move |-> NoMove,
   moves |-> << >>, mv |-> NoMove,
   \* as the call was entered: the board and the window
   entry |-> b, alpha0 |-> a, beta0 |-> be,
   \* _qsearch: the stand-pat value once computed, and the score of each
   \* move tried so far
   stand |-> << >>, seen |-> << >>]

Top == frames[Len(frames)]
Rest == SubSeq(frames, 1, Len(frames) - 1)
SetTop(f) == Append(Rest, f)
Running(fn, at) == frames # << >> /\ Top.fn = fn /\ Top.pc = at

Return(v) == frames' = Rest /\ ret' = << v >>

DriverUnchanged ==
  UNCHANGED << pc, depth, max_depth, min_depth, best, result, calls, iters,
               clockReads, scores, prev, nnVars, evalVars, guiVars >>

\* ------------------------------------------------- Engine._search (115-155)
\* depth == 0: return self._qsearch(board, alpha, beta, ply)
SearchLeaf ==
  /\ Running("search", "entry") /\ Top.depth = 0
  /\ frames' = SetTop([Top EXCEPT !.fn = "qsearch"])
  /\ UNCHANGED << board, tt, ret >>
  /\ DriverUnchanged

\* An entry used whatever its depth.
UsableAny(t, key, d) == key \in DOMAIN t

\* An entry used only when strictly deeper than the request.
UsableStrict(t, key, d) == key \in DOMAIN t /\ t[key].depth > d

\* Whether the table entry is used: entry and entry.depth >= depth.
Usable(t, key, d) == key \in DOMAIN t /\ t[key].depth >= d

ProbeAlpha(e, alpha) == IF e.flag = LOWER THEN Max(alpha, e.score) ELSE alpha
ProbeBeta(e, beta) == IF e.flag = UPPER THEN Min(beta, e.score) ELSE beta

\* Whether the probe returns entry.score without searching.
ProbeReturns(e, alpha, beta) ==
  \/ e.flag = EXACT
  \/ ProbeAlpha(e, alpha) >= ProbeBeta(e, beta)

\* Lines 119-133: the probe, then the set-up of the move loop.
SearchEntry ==
  /\ Running("search", "entry") /\ Top.depth > 0
  /\ LET key == tkey(board)
         hit == Usable(tt, key, Top.depth)
         a == IF hit THEN ProbeAlpha(tt[key], Top.alpha) ELSE Top.alpha
         be == IF hit THEN ProbeBeta(tt[key], Top.beta) ELSE Top.beta
     IN IF hit /\ ProbeReturns(tt[key], Top.alpha, Top.beta)
        THEN Return(tt[key].score)
        ELSE /\ frames' = SetTop([Top EXCEPT !.pc = "loop", !.alpha = a,
                                   !.beta = be, !.alpha_orig = a,
                                   !.moves = SortedMoves(board)])
             /\ ret' = << >>
  /\ UNCHANGED << board, tt >>
  /\ DriverUnchanged

\* Lines 135-140: push the next move and recurse, one ply deeper when the
\* move gives check.
SearchMove ==
  /\ Running("search", "loop") /\ Top.moves # << >>
  /\ LET mv == Head(Top.moves)
         b == Push(board, mv)
         extra == IF IsCheck(b) THEN 1 ELSE 0
     IN /\ board' = b
        /\ frames' = Append(SetTop([Top EXCEPT !.pc = "wait", !.mv = mv,
                                    !.moves = Tail(Top.moves)]),
                            Frame("search", b, Top.depth - 1 + extra,
                                  -Top.beta, -Top.alpha, Top.ply + 1))
  /\ ret' = << >>
  /\ UNCHANGED tt
  /\ DriverUnchanged

\* Lines 141-147: pop, then fold the child's score into best and alpha.
SearchAfter ==
  /\ Running("search", "wait") /\ ret # << >>
  /\ LET score == -ret[1]
         better == score > Top.best_val
         a == Max(Top.alpha, score)
     IN frames' = SetTop([Top EXCEPT
                    !.best_val = IF better THEN score ELSE @,
                    !.best_move = IF better THEN Top.mv ELSE @,
                    !.alpha = a,
                    !.pc = IF a >= Top.beta THEN "store" ELSE "loop"])
  /\ board' = Pop(board)
  /\ ret' = << >>
  /\ UNCHANGED tt
  /\ DriverUnchanged

\* A table that keeps the deeper of the old and the new entry.
StoreIfDeeper(t, key, e) ==
  IF key \in DOMAIN t /\ t[key].depth > e.depth THEN t
  ELSE [k \in DOMAIN t \cup {key} |-> IF k = key THEN e ELSE t[k]]

\* Line 154: self.tt[key] = entry.
Store(t, key, e) ==
  [k \in DOMAIN t \cup {key} |-> IF k = key THEN e ELSE t[k]]

\* Lines 149-155: after the loop (exhausted or broken), store and return.
SearchStore ==
  /\ \/ Running("search", "store")
     \/ Running("search", "loop") /\ Top.moves = << >>
  /\ LET key == tkey(board)
         e == TTEntry(Top.depth, Top.best_val,
                      Flag(Top.best_val, Top.alpha_orig, Top.beta),
                      Top.best_move)
     IN tt' = Store(tt, key, e)
  /\ Return(Top.best_val)
  /\ UNCHANGED board
  /\ DriverUnchanged

\* -------------------------------------------------- Engine._qsearch (98-112)
\* A fail-high that returns the value found (fail-soft).
FailHighSoft(beta, v) == v

\* Lines 101 and 110: a fail-high returns beta.
FailHigh(beta, v) == beta

\* Lines 99-102: stand pat.
QEntry ==
  /\ Running("qsearch", "entry")
  /\ LET stand == Evaluate(board, Top.ply)
     IN IF stand >= Top.beta
        THEN Return(FailHigh(Top.beta, stand))
        ELSE /\ frames' = SetTop([Top EXCEPT !.pc = "loop",
                                   !.alpha = Max(Top.alpha, stand),
                                   !.moves = Tactical(board),
                                   !.stand = << stand >>])
             /\ ret' = << >>
  /\ UNCHANGED << board, tt >>
  /\ DriverUnchanged

\* Lines 104-107: push the next tactical move and recurse.
QMove ==
  /\ Running("qsearch", "loop") /\ Top.moves # << >>
  /\ LET mv == Head(Top.moves)
         b == Push(board, mv)
     IN /\ board' = b
        /\ frames' = Append(SetTop([Top EXCEPT !.pc = "wait", !.mv = mv,
                                    !.moves = Tail(Top.moves)]),
                            Frame("qsearch", b, 0, -Top.beta, -Top.alpha,
                                  Top.ply + 1))
  /\ ret' = << >>
  /\ UNCHANGED tt
  /\ DriverUnchanged

\* The board after lines 108-110: pop comes before the cutoff test.
QBoardEarlyReturn(b, score, beta) == IF score >= beta THEN b ELSE Pop(b)

QBoardAfter(b, score, beta) == Pop(b)

\* Lines 108-111: pop, then cut off or raise alpha.
QAfter ==
  /\ Running("qsearch", "wait") /\ ret # << >>
  /\ LET score == -ret[1]
     IN /\ board' = QBoardAfter(board, score, Top.beta)
        /\ IF score >= Top.beta
           THEN Return(FailHigh(Top.beta, score))
           ELSE /\ frames' = SetTop([Top EXCEPT !.pc = "loop",
                                      !.alpha = Max(Top.alpha, score),
                                      !.seen = Append(Top.seen, score)])
                /\ ret' = << >>
  /\ UNCHANGED tt
  /\ DriverUnchanged

\* Line 112: no tactical move is left.
QReturn ==
  /\ Running("qsearch", "loop") /\ Top.moves = << >>
  /\ Return(Top.alpha)
  /\ UNCHANGED << board, tt >>
  /\ DriverUnchanged

\* ----------------------------------------------- the search as a function
\* _search and _qsearch once more, as functions of the position and the
\* table (the board is passed by value): what a search started from a given
\* table returns, and the table it leaves.
RECURSIVE RQSearch(_, _, _, _)
RECURSIVE RQLoop(_, _, _, _)
RECURSIVE RSearch(_, _, _, _, _, _)
RECURSIVE RLoop(_, _, _, _, _, _, _)

\* A child's result is bound once, as the element of a singleton, and then
\* read as often as needed.
RQSearch(p, alpha, beta, ply) ==
  LET stand == Evaluate(NewBoard(p), ply)
  IN IF stand >= beta THEN FailHigh(beta, stand)
     ELSE RQLoop(Tactical(NewBoard(p)), Max(alpha, stand), beta, ply)

RQLoop(ms, alpha, beta, ply) ==
  IF ms = << >> THEN alpha
  ELSE CHOOSE out \in
         { IF score >= beta THEN FailHigh(beta, score)
           ELSE RQLoop(Tail(ms), IF alpha >= score THEN alpha ELSE score,
                       beta, ply) :
           score \in {-RQSearch(Head(ms).to, -beta, -alpha, ply + 1)} } :
         TRUE

RSearch(p, d, alpha, beta, ply, t) ==
  IF d = 0 THEN [score |-> RQSearch(p, alpha, beta, ply), tt |-> t]
  ELSE
    LET hit == Usable(t, p, d)
        a == IF hit THEN ProbeAlpha(t[p], alpha) ELSE alpha
        be == IF hit THEN ProbeBeta(t[p], beta) ELSE beta
    IN IF hit /\ ProbeReturns(t[p], alpha, beta)
       THEN [score |-> t[p].score, tt |-> t]
       ELSE
         CHOOSE out \in
           { [score |-> r.best_val,
              tt |-> Store(r.tt, p,
                           TTEntry(d, r.best_val, Flag(r.best_val, a, be),
                                   r.best_move))] :
             r \in {RLoop(SortedMoves(NewBoard(p)), d, a, be, ply,
                          [best_val |-> -Inf, best_move |-> NoMove], t)} } :
           TRUE

RLoop(ms, d, alpha, beta, ply, bst, t) ==
  IF ms = << >>
  THEN [best_val |-> bst.best_val, best_move |-> bst.best_move, tt |-> t]
  ELSE
    LET mv == Head(ms)
        extra == IF IsCheck(NewBoard(mv.to)) THEN 1 ELSE 0
    IN CHOOSE out \in
         { LET score == -c.score
               nb == IF score > bst.best_val
                     THEN [best_val |-> score, best_move |-> mv]
                     ELSE bst
               a == Max(alpha, score)
           IN IF a >= beta
              THEN [best_val |-> nb.best_val, best_move |-> nb.best_move,
                    tt |-> c.tt]
              ELSE RLoop(Tail(ms), d, a, beta, ply, nb, c.tt) :
           c \in {RSearch(mv.to, d - 1 + extra, -beta, -alpha, ply + 1, t)} } :
         TRUE

\* Engine.__init__: the empty table.
EmptyTable == << >>

\* What a fresh Engine's _search returns for position p at depth d and ply
\* ply with the window (-inf, +inf).
FullSearch(p, d, ply) == RSearch(p, d, -Inf, Inf, ply, EmptyTable).score

\* ------------------------------------------------ Engine.best_move (158-177)
\* Lines 160-164: a call on position root; the first iteration starts.
BestMove(root, md, mind) ==
  /\ pc = "idle" /\ calls < MaxCalls
  /\ board' = NewBoard(root)
  /\ max_depth' = md /\ min_depth' = mind
  /\ best' = NoMove
  /\ depth' = 1
  /\ frames' = << Frame("search", NewBoard(root), 1, -Inf, Inf, 0) >>
  /\ ret' = << >>
  /\ pc' = "searching"
  /\ calls' = calls + 1
  /\ iters' = << >> /\ clockReads' = << >> /\ scores' = << >>
  /\ prev' = IF calls = 0 THEN prev
             ELSE [root |-> board.pos, scores |-> scores]
  /\ UNCHANGED << tt, result, nnVars, evalVars, guiVars >>

\* Line 171, left operand: whether the clock is looked at after this depth.
ConsultClockAlways(d, mind) == TRUE

ConsultClock(d, mind) == d >= mind

\* Lines 166-168: the move of the root's table entry, when it has one.
Recorded(t, b, cur) ==
  IF tkey(b) \in DOMAIN t /\ t[tkey(b)].best_move # NoMove
  THEN t[tkey(b)].best_move
  ELSE cur

\* Lines 166-172 and the loop header: _search has returned; record the
\* root's move, read the clock if allowed, then deepen or leave the loop.
IterationEnd ==
  /\ pc = "searching" /\ frames = << >> /\ ret # << >>
  /\ best' = Recorded(tt, board, best)
  /\ iters' = Append(iters, depth)
  /\ scores' = Append(scores, ret[1])
  /\ ret' = << >>
  /\ \E expired \in BOOLEAN :
       LET reads == ConsultClock(depth, min_depth)
           stop == (reads /\ expired) \/ depth = max_depth
       IN /\ reads \/ ~expired
          /\ clockReads' = IF reads THEN Append(clockReads, depth)
                           ELSE clockReads
          /\ IF stop
             THEN /\ pc' = "finishing"
                  /\ UNCHANGED << depth, frames >>
             ELSE /\ pc' = "searching"
                  /\ depth' = depth + 1
                  /\ frames' = << Frame("search", board, depth + 1,
                                        -Inf, Inf, 0) >>
  /\ UNCHANGED << board, tt, max_depth, min_depth, result, calls, prev,
                  nnVars, evalVars, guiVars >>

\* The return value without the fallback.
ReturnValueNoFallback(b, cur) == cur

\* Lines 173-177: the fallback and the return value.
ReturnValue(b, cur) ==
  IF cur = NoMove /\ ~IsGameOver(b) /\ LegalMoves(b) # << >>
  THEN LegalMoves(b)[1]
  ELSE cur

BestMoveReturn ==
  /\ pc = "finishing"
  /\ result' = [root |-> board.pos, mv |-> ReturnValue(board, best)]
  /\ pc' = "idle"
  /\ UNCHANGED << board, tt, frames, ret, depth, max_depth, min_depth, best,
                  calls, iters, clockReads, scores, prev, nnVars, evalVars, guiVars >>

\* best_move as a function: n completed iterations on position p, started
\* with table t; the move returned, the table left and each iteration's
\* root score.
RECURSIVE Deepen(_, _, _, _, _, _)
Deepen(p, d, n, t, cur, scs) ==
  IF d > n THEN [best |-> cur, tt |-> t, scores |-> scs]
  ELSE CHOOSE out \in
         { Deepen(p, d + 1, n, r.tt, Recorded(r.tt, NewBoard(p), cur),
                  Append(scs, r.score)) :
           r \in {RSearch(p, d, -Inf, Inf, 0, t)} } :
         TRUE

BestMoveAfter(p, n, t) ==
  CHOOSE out \in
    { [mv |-> ReturnValue(NewBoard(p), it.best), tt |-> it.tt,
       scores |-> it.scores] :
      it \in {Deepen(p, 1, n, t, NoMove, << >>)} } :
    TRUE

\* =================================================== NNUE (katfish_nnue.py)
INPUTS == 768
H1 == 256
PAWN == 1
KNIGHT == 2
BISHOP == 3
ROOK == 4
QUEEN == 5
KING == 6
WHITE == TRUE
BLACK == FALSE

\* OFFSET: piece -> offset of its block of 64 rows.
OFFSET(piece) == 64 * (piece - 1)

\* chess.square_mirror: the square with its rank flipped (sq ^ 0x38).
SquareMirror(sq) == (7 - (sq \div 8)) * 8 + (sq % 8)

\* ------------------------------------------- the board the NNUE is given
\* A placement: the piece on each occupied square (a1 = 0 ... h8 = 63), the
\* side to move and the en-passant square (-1: none).
Pc(t, c) == [type |-> t, color |-> c]
NMove(f, t, pr) == [from_square |-> f, to_square |-> t, promotion |-> pr]

NPieceTypeAt(pl, sq) ==
  IF sq \in DOMAIN pl.pieces THEN pl.pieces[sq].type ELSE 0

NKing(pl, color) ==
  CHOOSE sq \in DOMAIN pl.pieces : pl.pieces[sq] = Pc(KING, color)

NIsEnPassant(pl, mv) ==
  /\ pl.ep = mv.to_square
  /\ NPieceTypeAt(pl, mv.from_square) = PAWN
  /\ mv.to_square \notin DOMAIN pl.pieces
  /\ (mv.to_square - mv.from_square) \in {7, 9, -7, -9}

NIsCapture(pl, mv) ==
  \/ /\ mv.to_square \in DOMAIN pl.pieces
     /\ pl.pieces[mv.to_square].color # pl.turn
  \/ NIsEnPassant(pl, mv)

NIsCastling(pl, mv) ==
  /\ NPieceTypeAt(pl, mv.from_square) = KING
  /\ (mv.to_square - mv.from_square) \in {2, -2}

\* board.push on a placement: the piece moves (promoted if so), what it
\* captures leaves (en passant: the pawn behind the target square), the rook
\* of a castling king jumps over it, the turn passes.
NPushed(pl, mv) ==
  LET f == mv.from_square
      t == mv.to_square
      moved == IF mv.promotion # 0 THEN Pc(mv.promotion, pl.turn)
               ELSE pl.pieces[f]
      epVictim == IF pl.turn = WHITE THEN t - 8 ELSE t + 8
      rookFrom == IF t > f THEN f + 3 ELSE f - 4
      rookTo == IF t > f THEN f + 1 ELSE f - 1
      gone == {f} \cup (IF NIsEnPassant(pl, mv) THEN {epVictim} ELSE {})
                  \cup (IF NIsCastling(pl, mv) THEN {rookFrom} ELSE {})
      dom == ((DOMAIN pl.pieces \ gone) \cup {t})
               \cup (IF NIsCastling(pl, mv) THEN {rookTo} ELSE {})
      double == pl.pieces[f].type = PAWN /\ (t - f) \in {16, -16}
  IN [pieces |-> [sq \in dom |->
                    IF sq = t THEN moved
                    ELSE IF NIsCastling(pl, mv) /\ sq = rookTo
                         THEN Pc(ROOK, pl.turn)
                    ELSE pl.pieces[sq]],
      turn |-> ~pl.turn,
      ep |-> IF double THEN (f + t) \div 2 ELSE -1]

NPush(b, mv) ==
  [b EXCEPT !.cur = NPushed(b.cur, mv),
            !.stack = Append(b.stack, [mv |-> mv, prev |-> b.cur])]

NPop(b) ==
  [b EXCEPT !.cur = b.stack[Len(b.stack)].prev,
            !.stack = SubSeq(b.stack, 1, Len(b.stack) - 1)]

\* board.pieces(p, color) for p in PIECE_TYPES, as one list in the order the
\* loops of refresh visit it: by piece type, then by square.
RECURSIVE Ascending(_)
Ascending(S) ==
  IF S = {} THEN << >>
  ELSE LET m == CHOOSE x \in S : \A y \in S : x <= y
       IN << m >> \o Ascending(S \ {m})

NPieces(pl, color) ==
  LET keys == {64 * (pl.pieces[sq].type - 1) + sq :
                 sq \in {q \in DOMAIN pl.pieces : pl.pieces[q].color = color}}
      ks == Ascending(keys)
  IN [i \in 1..Len(ks) |-> [type |-> (ks[i] \div 64) + 1, sq |-> ks[i] % 64]]

\* ------------------------------------------------------ the accumulator
\* l1 is B1 and rows of W1 added and subtracted; it is kept as that
\* combination: the multiple of B1 and, per row index, the (non-zero)
\* multiple of the row.  Two accumulators built this way are equal for every
\* weight file exactly when their combinations are equal.  raw holds values
\* assigned to l1 that are no such combination.
NoRows == [i \in {} |-> 0]
Zeros == [bias |-> 0, w |-> NoRows, raw |-> << >>]
Bias == [bias |-> 1, w |-> NoRows, raw |-> << >>]

AddRow(acc, idx, sign) ==
  LET old == IF idx \in DOMAIN acc.w THEN acc.w[idx] ELSE 0
      dom == IF old + sign = 0 THEN DOMAIN acc.w \ {idx}
             ELSE DOMAIN acc.w \cup {idx}
  IN [acc EXCEPT !.w = [i \in dom |-> IF i = idx THEN old + sign
                                      ELSE acc.w[i]]]

\* NNUE._index
Index(king_sq, pc_sq, offset) == 64 * king_sq + pc_sq + offset

\* NNUE._add_piece on st = [acc, err]; an exception raised earlier has
\* already ended the method.  OFFSET[None] is a KeyError, a row index beyond
\* W1 an IndexError.
AddPiece(st, piece, sq, color, king_sq, sign) ==
  LET msq == IF color = BLACK THEN SquareMirror(sq) ELSE sq
      idx == Index(king_sq, msq, OFFSET(piece))
  IN IF st.err # "" THEN st
     ELSE IF piece = 0 THEN [st EXCEPT !.err = "KeyError"]
     ELSE IF idx >= INPUTS THEN [st EXCEPT !.err = "IndexError"]
     ELSE [st EXCEPT !.acc = AddRow(st.acc, idx, sign)]

RECURSIVE AddPieces(_, _, _, _, _)
AddPieces(st, list, color, king_sq, sign) ==
  IF list = << >> THEN st
  ELSE AddPieces(AddPiece(st, list[1].type, list[1].sq, color, king_sq, sign),
                 Tail(list), color, king_sq, sign)

\* NNUE.refresh (58-72)
Refresh(st, pl) ==
  LET stm == pl.turn
      own == AddPieces([acc |-> Bias, err |-> st.err], NPieces(pl, stm),
                       stm, NKing(pl, stm), 1)
  IN AddPieces(own, NPieces(pl, ~stm), ~stm, NKing(pl, ~stm), -1)

\* The tuple make_move stacks (line 82) and its length.
StackedLen == 5
Stacked(pl, mv) ==
  [piece |-> NPieceTypeAt(pl, mv.from_square), from_sq |-> mv.from_square,
   to_sq |-> mv.to_square, stm |-> pl.turn, king_before |-> NKing(pl, pl.turn)]

\* NNUE.make_move (84-98) on the accumulator.
MakeMoveAcc(st, pl, mv) ==
  LET stm == pl.turn
      king_before == NKing(pl, stm)
      piece == NPieceTypeAt(pl, mv.from_square)
      removed == AddPiece(st, piece, mv.from_square, stm, king_before, -1)
      captured == IF NIsCapture(pl, mv)
                  THEN AddPiece(removed, NPieceTypeAt(pl, mv.to_square),
                                mv.to_square, ~stm, NKing(pl, ~stm), 1)
                  ELSE removed
      placed == IF mv.promotion # 0 THEN mv.promotion ELSE piece
  IN IF captured.err # "" THEN captured
     ELSE IF placed = KING THEN Refresh(captured, pl)
     ELSE AddPiece(captured, placed, mv.to_square, stm, king_before, 1)

\* self.l1[:] = x for a sequence x: NumPy broadcasts a sequence of length
\* H1 (or 1) and raises ValueError for any other length.
Broadcasts(len) == len = H1 \/ len = 1

\* ------------------------------------------------ positions and their lines
Placement(ps, t, e) == [pieces |-> ps, turn |-> t, ep |-> e]

\* White Ke1 Rh1 Nh3 Pe5 Pg7, Black Ka1 Rh8 Pd5 (just played d7-d5), White
\* to move: both kings on the first rank.
PlacementA ==
  Placement((0 :> Pc(KING, BLACK)) @@ (4 :> Pc(KING, WHITE))
            @@ (7 :> Pc(ROOK, WHITE)) @@ (23 :> Pc(KNIGHT, WHITE))
            @@ (35 :> Pc(PAWN, BLACK)) @@ (36 :> Pc(PAWN, WHITE))
            @@ (54 :> Pc(PAWN, WHITE)) @@ (63 :> Pc(ROOK, BLACK)),
            WHITE, 43)

\* White Ke1 Pe2, Black Ke8 Pe7, White to move.
PlacementB ==
  Placement((4 :> Pc(KING, WHITE)) @@ (12 :> Pc(PAWN, WHITE))
            @@ (52 :> Pc(PAWN, BLACK)) @@ (60 :> Pc(KING, BLACK)),
            WHITE, -1)

Placements == << PlacementA, PlacementB >>

\* Legal lines of play from each placement.
Lines ==
  << { << NMove(23, 38, 0), NMove(63, 7, 0) >>,      \* Nh3-g5, Rh8xh1+
       << NMove(23, 38, 0), NMove(0, 1, 0) >>,       \* Nh3-g5, Ka1-b1
       << NMove(54, 63, QUEEN), NMove(0, 8, 0) >>,   \* g7xh8=Q, Ka1-a2
       << NMove(54, 62, KNIGHT), NMove(63, 62, 0) >>,\* g7-g8=N, Rh8xg8
       << NMove(36, 43, 0), NMove(63, 60, 0) >>,     \* e5xd6 e.p., Rh8-e8+
       << NMove(4, 3, 0), NMove(35, 27, 0) >>,       \* Ke1-d1, d5-d4
       << NMove(4, 6, 0), NMove(0, 8, 0) >>,         \* O-O+, Ka1-a2
       << NMove(7, 5, 0), NMove(35, 27, 0) >> },     \* Rh1-f1, d5-d4
     { << NMove(12, 28, 0), NMove(52, 36, 0) >>,     \* e2-e4, e7-e5
       << NMove(4, 3, 0), NMove(60, 59, 0) >> } >>   \* Ke1-d1, Ke8-d8

\* The moves of the lines that continue the moves made so far.
MovesMade(b) == [i \in 1..Len(b.stack) |-> b.stack[i].mv]

\* A board set up on placement i; it remembers i, for its legal moves.
NBoard(i) == [start |-> i, cur |-> Placements[i], stack |-> << >>]

NLegalMoves(b) ==
  { l[Len(b.stack) + 1] :
      l \in { x \in Lines[b.start] :
                /\ Len(x) > Len(b.stack)
                /\ SubSeq(x, 1, Len(b.stack)) = MovesMade(b) } }

\* ------------------------------------------------------- NNUE operations
\* A caller drives the evaluator next to its board: nn.make_move(board, mv)
\* then board.push(mv); nn.unmake() then board.pop().  An exception ends
\* the run (nnErr names it).  nnPre remembers the accumulator each make_move
\* still on the stack started from; nnLast describes the last call.
NNIdle == [op |-> "none"]

Synced(acc, pl) ==
  LET r == Refresh([acc |-> Zeros, err |-> ""], pl)
  IN r.err = "" /\ acc = r.acc

NNRefresh ==
  /\ nnErr = ""
  /\ LET st == Refresh([acc |-> nnAcc, err |-> ""], nnBoard.cur)
     IN /\ nnAcc' = st.acc
        /\ nnErr' = st.err
  /\ nnLast' = [op |-> "refresh"]
  /\ UNCHANGED << nnBoard, nnStack, nnPre >>

NNMakeMove(mv) ==
  /\ nnErr = ""
  /\ mv \in NLegalMoves(nnBoard)
  /\ LET pl == nnBoard.cur
         st == MakeMoveAcc([acc |-> nnAcc, err |-> ""], pl, mv)
     IN /\ nnStack' = Append(nnStack, Stacked(pl, mv))
        /\ nnAcc' = st.acc
        /\ nnErr' = st.err
        /\ nnBoard' = IF st.err = "" THEN NPush(nnBoard, mv) ELSE nnBoard
        /\ nnLast' = [op |-> "make_move", mv |-> mv,
                      king |-> NPieceTypeAt(pl, mv.from_square) = KING,
                      synced |-> Synced(nnAcc, pl)]
  /\ nnPre' = Append(nnPre, nnAcc)

NNUnmake ==
  /\ nnErr = ""
  /\ nnStack # << >>
  /\ nnStack' = SubSeq(nnStack, 1, Len(nnStack) - 1)
  /\ nnPre' = SubSeq(nnPre, 1, Len(nnPre) - 1)
  /\ IF Broadcasts(StackedLen)
     THEN /\ nnAcc' = [bias |-> 0, w |-> NoRows,
                       raw |-> << nnStack[Len(nnStack)] >>]
          /\ nnErr' = ""
          /\ nnBoard' = NPop(nnBoard)
     ELSE /\ nnErr' = "ValueError"
          /\ UNCHANGED << nnAcc, nnBoard >>
  /\ nnLast' = [op |-> "unmake", before |-> nnPre[Len(nnPre)],
                height |-> Len(nnStack) - 1]

\* ===================================== Engine.evaluate on placements (81-95)
\* MATERIAL and PSQT, indexed by piece type (and square + 1).
MATERIAL == << 100, 320, 330, 500, 900, 0 >>

PSQT ==
  << \* chess.PAWN
     << 0, 0, 0, 0, 0, 0, 0, 0,
        5, 10, 10, -20, -20, 10, 10, 5,
        5, -5, -10, 0, 0, -10, -5, 5,
        0, 0, 0, 20, 20, 0, 0, 0,
        5, 5, 10, 25, 25, 10, 5, 5,
        10, 10, 20, 30, 30, 20, 10, 10,
        50, 50, 50, 50, 50, 50, 50, 50,
        0, 0, 0, 0, 0, 0, 0, 0 >>,
     \* chess.KNIGHT
     << -50, -40, -30, -30, -30, -30, -40, -50,
        -40, -20, 0, 0, 0, 0, -20, -40,
        -30, 0, 10, 15, 15, 10, 0, -30,
        -30, 5, 15, 20, 20, 15, 5, -30,
        -30, 0, 15, 20, 20, 15, 0, -30,
        -30, 5, 10, 15, 15, 10, 5, -30,
        -40, -20, 0, 5, 5, 0, -20, -40,
        -50, -40, -30, -30, -30, -30, -40, -50 >>,
     \* chess.BISHOP
     << -20, -10, -10, -10, -10, -10, -10, -20,
        -10, 0, 0, 0, 0, 0, 0, -10,
        -10, 0, 5, 10, 10, 5, 0, -10,
        -10, 5, 5, 10, 10, 5, 5, -10,
        -10, 0, 10, 10, 10, 10, 0, -10,
        -10, 10, 10, 10, 10, 10, 10, -10,
        -10, 5, 0, 0, 0, 0, 5, -10,
        -20, -10, -10, -10, -10, -10, -10, -20 >>,
     \* chess.ROOK
     << 0, 0, 0, 0, 0, 0, 0, 0,
        5, 10, 10, 10, 10, 10, 10, 5,
        -5, 0, 0, 0, 0, 0, 0, -5,
        -5, 0, 0, 0, 0, 0, 0, -5,
        -5, 0, 0, 0, 0, 0, 0, -5,
        -5, 0, 0, 0, 0, 0, 0, -5,
        -5, 0, 0, 0, 0, 0, 0, -5,
        0, 0, 0, 5, 5, 0, 0, 0 >>,
     \* chess.QUEEN
     << -20, -10, -10, -5, -5, -10, -10, -20,
        -10, 0, 0, 0, 0, 0, 0, -10,
        -10, 0, 5, 5, 5, 5, 0, -10,
        -5, 0, 5, 5, 5, 5, 0, -5,
        0, 0, 5, 5, 5, 5, 0, -5,
        -10, 5, 5, 5, 5, 5, 0, -10,
        -10, 0, 5, 0, 0, 0, 0, -10,
        -20, -10, -10, -5, -5, -10, -10, -20 >>,
     \* chess.KING
     << -30, -40, -40, -50, -50, -40, -40, -30,
        -30, -40, -40, -50, -50, -40, -40, -30,
        -30, -40, -40, -50, -50, -40, -40, -30,
        -30, -40, -40, -50, -50, -40, -40, -30,
        -20, -30, -30, -40, -40, -30, -30, -20,
        -10, -20, -20, -20, -20, -20, -20, -10,
        20, 20, 0, 0, 0, 0, 20, 20,
        20, 30, 10, 0, 0, 10, 30, 20 >>
  >>

\* The board evaluate reads: the pieces, the side to move, and what
\* is_checkmate, is_stalemate and is_insufficient_material answer.
EBoard(ps, t, st, ins) ==
  [pieces |-> ps, turn |-> t, status |-> st, insuff |-> ins]

\* One piece's term of the sum (lines 91-94).
PieceTerm(piece, sq) ==
  IF piece.color = WHITE
  THEN MATERIAL[piece.type] + PSQT[piece.type][sq + 1]
  ELSE -(MATERIAL[piece.type] + PSQT[piece.type][SquareMirror(sq) + 1])

RECURSIVE SumTerms(_, _)
SumTerms(ps, sqs) ==
  IF sqs = {} THEN 0
  ELSE LET sq == CHOOSE x \in sqs : TRUE
       IN PieceTerm(ps[sq], sq) + SumTerms(ps, sqs \ {sq})

\* Lines 89-94: sc, from White's view.
WhiteScore(ps) == SumTerms(ps, DOMAIN ps)

\* evaluate without the negation for Black.
EvaluateWhiteView(e, ply_from_root) ==
  IF e.status = "checkmate" THEN -(MATE_VAL - ply_from_root)
  ELSE IF e.status = "stalemate" \/ e.insuff THEN 0
  ELSE WhiteScore(e.pieces)

\* evaluate with the draw test only for insufficient material.
EvaluateNoStalemate(e, ply_from_root) ==
  IF e.status = "checkmate" THEN -(MATE_VAL - ply_from_root)
  ELSE IF e.insuff THEN 0
  ELSE IF e.turn THEN WhiteScore(e.pieces) ELSE -WhiteScore(e.pieces)

EvaluateBoard(e, ply_from_root) ==
  IF e.status = "checkmate" THEN -(MATE_VAL - ply_from_root)
  ELSE IF e.status = "stalemate" \/ e.insuff THEN 0
  ELSE IF e.turn THEN WhiteScore(e.pieces) ELSE -WhiteScore(e.pieces)

\* Pieces of the boards evaluate is called on.
MatedBlack ==      \* Kf6 Qg7 against Kh8
  (45 :> Pc(KING, WHITE)) @@ (54 :> Pc(QUEEN, WHITE))
    @@ (63 :> Pc(KING, BLACK))

MatedWhite ==      \* Kf3 Qg2 against Kh1
  (21 :> Pc(KING, BLACK)) @@ (14 :> Pc(QUEEN, BLACK))
    @@ (7 :> Pc(KING, WHITE))

StalematedBlack == \* Ka1 Qg6 against Kh8
  (0 :> Pc(KING, WHITE)) @@ (46 :> Pc(QUEEN, WHITE))
    @@ (63 :> Pc(KING, BLACK))

StalematedWhite == \* Ka8 Qg3 against Kh1
  (56 :> Pc(KING, BLACK)) @@ (22 :> Pc(QUEEN, BLACK))
    @@ (7 :> Pc(KING, WHITE))

BishopOnly ==      \* Kb6 Ba6 against Ka8
  (41 :> Pc(KING, WHITE)) @@ (40 :> Pc(BISHOP, WHITE))
    @@ (56 :> Pc(KING, BLACK))

QueenForKnight ==  \* Ke1 Qd1 Pa2 against Ke8 Nb8
  (4 :> Pc(KING, WHITE)) @@ (3 :> Pc(QUEEN, WHITE))
    @@ (8 :> Pc(PAWN, WHITE)) @@ (60 :> Pc(KING, BLACK))
    @@ (57 :> Pc(KNIGHT, BLACK))

\* The boards: each set of pieces with the side to move for which the
\* position is legal, and python-chess's verdict on it.
EvalBoards ==
  << EBoard(PlacementA.pieces, WHITE, "play", FALSE),
     EBoard(PlacementA.pieces, BLACK, "play", FALSE),
     EBoard(PlacementB.pieces, WHITE, "play", FALSE),
     EBoard(PlacementB.pieces, BLACK, "play", FALSE),
     EBoard(QueenForKnight, WHITE, "play", FALSE),
     EBoard(QueenForKnight, BLACK, "play", FALSE),
     EBoard(MatedBlack, BLACK, "checkmate", FALSE),
     EBoard(MatedWhite, WHITE, "checkmate", FALSE),
     EBoard(StalematedBlack, BLACK, "stalemate", FALSE),
     EBoard(StalematedBlack, WHITE, "play", FALSE),
     EBoard(StalematedWhite, WHITE, "stalemate", FALSE),
     EBoard(StalematedWhite, BLACK, "play", FALSE),
     EBoard(BishopOnly, WHITE, "play", TRUE),
     EBoard(BishopOnly, BLACK, "play", TRUE) >>

\* evaluate is called with ply_from_root in 0..MaxPly.
NoEval == [called |-> FALSE]

EvaluateCall(e, ply) ==
  /\ evCall' = [called |-> TRUE, board |-> e, ply |-> ply,
                value |-> EvaluateBoard(e, ply)]
  /\ evPrev' = evCall

\* ============================ the opening book (board_utils.py 6-28)
BookEntry(m, w) == [move |-> m, weight |-> w]

\* BOOK_READER.find_all(board): the entries, or IndexError.
Found(es) == [raises |-> FALSE, entries |-> es]
RaisesIndexError == [raises |-> TRUE, entries |-> << >>]

\* The books a reader may hold, each by what find_all answers per position:
\* the first has one entry for positions 1 and 2, three entries for position
\* 11 (the heaviest twice, and not first), two of equal weight for position
\* 9, and fails on position 12; the second has no entry at all.
Books ==
  << [p \in Pos |->
        CASE p = 1 -> Found(<< BookEntry(Universe[1].moves[1], 10) >>)
          [] p = 2 -> Found(<< BookEntry(Universe[2].moves[1], 1) >>)
          [] p = 9 -> Found(<< BookEntry(Universe[9].moves[1], 7),
                               BookEntry(Universe[9].moves[2], 7) >>)
          [] p = 11 -> Found(<< BookEntry(Universe[11].moves[1], 5),
                                BookEntry(Universe[11].moves[2], 20),
                                BookEntry(Universe[11].moves[3], 20) >>)
          [] p = 12 -> RaisesIndexError
          [] OTHER -> Found(<< >>)],
     [p \in Pos |-> Found(<< >>)] >>

\* max(entries, key=lambda e: e.weight) taken as the first entry.
FirstEntry(entries) == entries[1]

\* max(entries, key=lambda e: e.weight): the first entry of greatest weight.
MaxEntry(entries) ==
  LET i == CHOOSE k \in 1..Len(entries) :
             /\ \A j \in 1..Len(entries) :
                  entries[j].weight <= entries[k].weight
             /\ \A j \in 1..(k - 1) : entries[j].weight < entries[k].weight
  IN entries[i]

\* book_move(board) with BOOK_READER = reader.
BookMove(reader, b) ==
  IF reader = 0 THEN NoMove
  ELSE LET r == Books[reader][b.pos]
       IN IF r.raises THEN NoMove
          ELSE IF r.entries = << >> THEN NoMove
          ELSE MaxEntry(r.entries).move

\* ======================================== ChessWindow (gui.py 13-186)
\* The squares a move goes from and to.
MoveSquares ==
  ("Ng1f3" :> << "g1", "f3" >>) @@ ("Ng8f6" :> << "g8", "f6" >>)
    @@ ("Nf3g1" :> << "f3", "g1" >>) @@ ("Nf6g8" :> << "f6", "g8" >>)
    @@ ("Kg1g2" :> << "g1", "g2" >>) @@ ("Kh8g8" :> << "h8", "g8" >>)
    @@ ("Ra1a8" :> << "a1", "a8" >>) @@ ("Ra1a2" :> << "a1", "a2" >>)
    @@ ("h2h3" :> << "h2", "h3" >>) @@ ("a2a3" :> << "a2", "a3" >>)
    @@ ("h7h6" :> << "h7", "h6" >>) @@ ("a7a6" :> << "a7", "a6" >>)
    @@ ("Nb1c3" :> << "b1", "c3" >>) @@ ("e4d5" :> << "e4", "d5" >>)
    @@ ("Bf1b5" :> << "f1", "b5" >>) @@ ("Nb8c6" :> << "b8", "c6" >>)
    @@ ("Qd8d5" :> << "d8", "d5" >>) @@ ("Ng1e2" :> << "g1", "e2" >>)
    @@ ("b7b8q" :> << "b7", "b8" >>) @@ ("c7c6" :> << "c7", "c6" >>)
    @@ ("Qd5d8" :> << "d5", "d8" >>) @@ ("Ka8b8" :> << "a8", "b8" >>)
    @@ ("Ba6b7" :> << "a6", "b7" >>) @@ ("Ba6c4" :> << "a6", "c4" >>)
    @@ ("Kb8a8" :> << "b8", "a8" >>) @@ ("Bc4a6" :> << "c4", "a6" >>)
    @@ ("Qh5e8" :> << "h5", "e8" >>) @@ ("Kg8h7" :> << "g8", "h7" >>)
    @@ ("Qe8h5" :> << "e8", "h5" >>) @@ ("Kh7g8" :> << "h7", "g8" >>)

FromSquare(m) == MoveSquares[m.name][1]
ToSquare(m) == MoveSquares[m.name][2]

\* chess.Move(from, to) in board.legal_moves: the legal moves equal to it; a
\* promotion is a different move (it names the piece).
LegalFromTo(b, from, to) ==
  LET Is(m) == ~m.promo /\ FromSquare(m) = from /\ ToSquare(m) = to
  IN SelectSeq(LegalMoves(b), Is)

\* Where a click matters: the squares the legal moves touch, and one more.
ClickSquares(b) ==
  {FromSquare(LegalMoves(b)[i]) : i \in 1..Len(LegalMoves(b))}
    \cup {ToSquare(LegalMoves(b)[i]) : i \in 1..Len(LegalMoves(b))}
    \cup {"a5"}

\* The side to move has a piece of its own on every square one of its
\* legal moves starts from.
MoverPieceAt(b, sq) ==
  \E i \in 1..Len(LegalMoves(b)) : FromSquare(LegalMoves(b)[i]) = sq

\* make_move that leaves the redo stack as it is.
RedoAfterMoveKept(redo) == redo

\* make_move, line 165: self.redo_stack.clear().
RedoAfterMove(redo) == << >>

\* mousePressEvent (148-162) on square sq, with make_move (164-168).
MousePress(sq) ==
  /\ sq \in ClickSquares(gBoard)
  /\ IF gSelected = "None"
     THEN /\ \E own \in BOOLEAN :
               /\ (Turn(gBoard) = gHuman /\ MoverPieceAt(gBoard, sq)) => own
               /\ gSelected' = IF own THEN sq ELSE "None"
          /\ UNCHANGED << gBoard, gRedo, gReplyTimer >>
     ELSE LET found == LegalFromTo(gBoard, gSelected, sq)
          IN /\ IF found # << >> /\ Turn(gBoard) = gHuman
                THEN /\ Len(gBoard.stack) + 2 <= MaxPlies
                     /\ gRedo' = RedoAfterMove(gRedo)
                     /\ gBoard' = Push(gBoard, found[1])
                     /\ gReplyTimer' = TRUE
                ELSE UNCHANGED << gBoard, gRedo, gReplyTimer >>
             /\ gSelected' = "None"
  /\ UNCHANGED << gHuman, gStartShot, gTT, gBook, gLast >>

\* keyPressEvent, Key_Left (75-81): undo one ply.
KeyLeft ==
  /\ gBoard.stack # << >>
  /\ gRedo' = Append(gRedo, gBoard.stack[Len(gBoard.stack)].mv)
  /\ gBoard' = Pop(gBoard)
  /\ gSelected' = "None"
  /\ UNCHANGED << gHuman, gStartShot, gReplyTimer, gTT, gBook, gLast >>

\* keyPressEvent, Key_Right (82-88): redo one ply.
KeyRight ==
  /\ gRedo # << >>
  /\ gBoard' = Push(gBoard, gRedo[Len(gRedo)])
  /\ gRedo' = SubSeq(gRedo, 1, Len(gRedo) - 1)
  /\ gSelected' = "None"
  /\ UNCHANGED << gHuman, gStartShot, gReplyTimer, gTT, gBook, gLast >>

NoReply == [ran |-> FALSE]
Reply(p, searched, mv) ==
  [ran |-> TRUE, pos |-> p, searched |-> searched, played |-> mv]

\* A guard that looks at the end of the game only.
NothingToDoGameOverOnly(b, human_is_white) == IsGameOver(b)

\* Line 171: engine_reply returns at once.
NothingToDo(b, human_is_white) ==
  IsGameOver(b) \/ Turn(b) = human_is_white

\* engine_reply (170-186), run by the single-shot timer of __init__ (51) or
\* by reply_timer (47); best_move(board, 2.0) completes n >= min_depth = 2
\* iterations.
EngineReply(startShot) ==
  /\ IF startShot
     THEN gStartShot /\ gStartShot' = FALSE /\ UNCHANGED gReplyTimer
     ELSE gReplyTimer /\ gReplyTimer' = FALSE /\ UNCHANGED gStartShot
  /\ IF NothingToDo(gBoard, gHuman)
     THEN /\ gLast' = NoReply
          /\ UNCHANGED << gBoard, gRedo, gTT >>
     ELSE LET mv == BookMove(gBook, gBoard)
          IN IF mv # NoMove
             THEN /\ gRedo' = RedoAfterMove(gRedo)
                  /\ gBoard' = Push(gBoard, mv)
                  /\ gLast' = Reply(gBoard.pos, FALSE, mv)
                  /\ UNCHANGED gTT
             ELSE \E n \in 2..MaxReplyDepth :
                    \E r \in {BestMoveAfter(gBoard.pos, n, gTT)} :
                       /\ gTT' = r.tt
                       /\ gLast' = Reply(gBoard.pos, TRUE, r.mv)
                       /\ IF r.mv # NoMove
                          THEN /\ gRedo' = RedoAfterMove(gRedo)
                               /\ gBoard' = Push(gBoard, r.mv)
                          ELSE UNCHANGED << gBoard, gRedo >>
  /\ UNCHANGED << gSelected, gHuman, gBook >>

\* ChessWindow.__init__ (19-51) with the game starting at position p, and
\* the module-level BOOK_READER.
GuiStarts == {1, 7, 9, 11, 16}

GuiConstructed(p, human_is_white, reader) ==
  /\ gBoard = NewBoard(p)
  /\ gRedo = << >>
  /\ gSelected = "None"
  /\ gHuman = human_is_white
  /\ gStartShot = ~human_is_white
  /\ gReplyTimer = FALSE
  /\ gTT = EmptyTable
  /\ gBook = reader
  /\ gLast = NoReply

\* ------------------------------------------------------------ specification
NoCall == [root |-> 0, scores |-> << >>]

SearchInit ==
  /\ board = NewBoard(1)
  /\ tt = << >>
  /\ frames = << >>
  /\ ret = << >>
  /\ pc = "idle"
  /\ depth = 0 /\ max_depth = 0 /\ min_depth = 0
  /\ best = NoMove
  /\ result = [root |-> 0, mv |-> NoMove]
  /\ calls = 0
  /\ iters = << >> /\ clockReads = << >> /\ scores = << >>
  /\ prev = NoCall

\* NNUE.__init__ (42-43), next to a board on placement i.
NNConstructed(i) ==
  /\ nnBoard = NBoard(i)
  /\ nnAcc = Zeros
  /\ nnStack = << >>
  /\ nnErr = ""
  /\ nnPre = << >>
  /\ nnLast = NNIdle

EvalInit == evCall = NoEval /\ evPrev = NoEval

GuiIdle == GuiConstructed(1, TRUE, 0)

Init == SearchInit /\ NNConstructed(1) /\ EvalInit /\ GuiIdle

Next ==
  \/ \E root \in Roots, md \in 1..MaxDepth, mind \in 1..MaxMinDepth :
       BestMove(root, md, mind)
  \/ SearchLeaf
  \/ SearchEntry
  \/ SearchMove
  \/ SearchAfter
  \/ SearchStore
  \/ QEntry
  \/ QMove
  \/ QAfter
  \/ QReturn
  \/ IterationEnd
  \/ BestMoveReturn

Spec == Init /\ [][Next]_vars

\* The evaluator driven on its own, the engine idle.
InitNNUE ==
  /\ SearchInit /\ EvalInit /\ GuiIdle
  /\ \E i \in 1..Len(Placements) : NNConstructed(i)

NextNNUE ==
  /\ \/ NNRefresh
     \/ \E mv \in NLegalMoves(nnBoard) : NNMakeMove(mv)
     \/ NNUnmake
  /\ UNCHANGED << searchVars, evalVars, guiVars >>

SpecNNUE == InitNNUE /\ [][NextNNUE]_vars

\* evaluate called on the boards, the engine and the NNUE idle.
NextEval ==
  /\ \E i \in 1..Len(EvalBoards), ply \in 0..MaxPly :
       EvaluateCall(EvalBoards[i], ply)
  /\ UNCHANGED << searchVars, nnVars, guiVars >>

SpecEval == Init /\ [][NextEval]_vars

\* The window driven by clicks, keys and timers.
InitGui ==
  /\ SearchInit /\ NNConstructed(1) /\ EvalInit
  /\ \E p \in GuiStarts, human_is_white \in BOOLEAN,
        reader \in 0..Len(Books) :
       GuiConstructed(p, human_is_white, reader)

NextGui ==
  /\ \/ \E sq \in ClickSquares(gBoard) : MousePress(sq)
     \/ KeyLeft
     \/ KeyRight
     \/ EngineReply(TRUE)
     \/ EngineReply(FALSE)
  /\ UNCHANGED << searchVars, nnVars, evalVars >>

SpecGui == InitGui /\ [][NextGui]_vars

\* ================================================================== claims
\* A step in which a _search or _qsearch activation returns.
Returns == Len(frames') < Len(frames)

\* The entry the running _search is about to store (lines 149-154).
Storing ==
  \/ Running("search", "store")
  \/ Running("search", "loop") /\ Top.moves = << >>

StoredEntry ==
  TTEntry(Top.depth, Top.best_val,
          Flag(Top.best_val, Top.alpha_orig, Top.beta), Top.best_move)

\* The last best_move call has returned.
Returned == pc = "idle" /\ result.root # 0

HasLegalMove(p) == Universe[p].moves # << >>

\* C1: whenever an activation of _search or _qsearch returns (loop end, beta
\* cutoff, stand pat, table hit), the board, position and move stack, is the
\* board that activation was entered with.
C1_BoardRestoredOnReturn == [][Returns => board' = Top.entry]_vars

\* C1 witness: a _search loop was left by a beta cutoff with moves unsearched
\* below the root, and the board is the one the call was entered with.
C1_Witness ==
  /\ Running("search", "store") /\ Top.moves # << >>
  /\ Len(board.stack) > 0 /\ board = Top.entry

\* C2: a best_move call on a position with a legal move returns a move that
\* is legal there, whatever earlier calls left in the table.
C2_ReturnsLegalMove ==
  (Returned /\ HasLegalMove(result.root))
    => IsLegal(NewBoard(result.root), result.mv)

\* C3: best_move returns None only for a position without legal moves.
C3_NoneOnlyWithoutLegalMoves ==
  (Returned /\ result.mv = NoMove) => ~HasLegalMove(result.root)

\* C4: the entry _search stores bounds what a full-window search of the
\* same position at the same depth (and ply) by a fresh Engine returns:
\* equal for EXACT, at least the stored score for LOWER, at most for UPPER.
C4_BoundSoundness ==
  Storing =>
    LET e == StoredEntry
        full == FullSearch(board.pos, Top.depth, Top.ply)
    IN /\ e.flag = EXACT => full = e.score
       /\ e.flag = LOWER => full >= e.score
       /\ e.flag = UPPER => full <= e.score

\* C5: a _search call entered with alpha < beta returns a score s with
\* alpha <= s <= beta, on each of its return paths: the table hit, the
\* quiescence result at depth 0, and the end of the move loop.
InWindow(f, s) == f.alpha0 < f.beta0 => (f.alpha0 <= s /\ s <= f.beta0)

C5_ScoreInWindow ==
  /\ Storing => InWindow(Top, Top.best_val)
  /\ (Running("search", "entry") /\ Top.depth > 0
        /\ Usable(tt, tkey(board), Top.depth)
        /\ ProbeReturns(tt[tkey(board)], Top.alpha, Top.beta))
       => InWindow(Top, tt[tkey(board)].score)
  /\ (Running("qsearch", "loop") /\ Top.moves = << >>)
       => InWindow(Top, Top.alpha)


\* C6: after NNUE.unmake the accumulator l1 is again what it was before the
\* make_move that unmake undoes, the undo stack is back at its height before
\* that make_move, and no exception was raised.
C6_UnmakeRestoresAccumulator ==
  nnLast.op = "unmake" =>
    /\ nnErr = ""
    /\ nnAcc = nnLast.before
    /\ Len(nnStack) = nnLast.height

\* C7: after NNUE.make_move of a legal move of a piece other than the king,
\* started from an accumulator in step with the board, and the push of the
\* move, the accumulator is the one NNUE.refresh computes on the position
\* reached.
C7_IncrementalEqualsRefresh ==
  (nnLast.op = "make_move" /\ ~nnLast.king /\ nnLast.synced) =>
    /\ nnErr = ""
    /\ Synced(nnAcc, nnBoard.cur)

\* C8: after NNUE.make_move of a king move (castling included) the
\* accumulator is the from-scratch refresh of the position after the move.
C8_KingMoveRefreshesResult ==
  (nnLast.op = "make_move" /\ nnLast.king) =>
    /\ nnErr = ""
    /\ Synced(nnAcc, nnBoard.cur)

\* C9: at equal search depth, the root score of the position that mates at
\* ply 1 is strictly greater than the mate score of the position that mates
\* at ply 3.
\* (Position 7 mates at ply 1, position 5 at ply 3.)
IsMateScore(s) == s >= MATE_VAL - 100

C9_ShorterMateScoresHigher ==
  (prev.root = 7 /\ board.pos = 5 /\ calls = 2)
    => \A d \in 1..Min(Len(scores), Len(prev.scores)) :
         IsMateScore(scores[d]) => prev.scores[d] > scores[d]

\* C10: the clock is read only after a completed iteration of depth >=
\* min_depth; iterations run in the order 1, 2, ... and never beyond
\* max_depth; the loop is left only between iterations and not before
\* iteration min(min_depth, max_depth) is complete.
C10_ClockBetweenIterations ==
  /\ \A i \in 1..Len(iters) : iters[i] = i
  /\ Len(iters) <= max_depth
  /\ \A i \in 1..Len(clockReads) :
       /\ clockReads[i] >= min_depth
       /\ clockReads[i] <= Len(iters)
       /\ (pc = "searching" => clockReads[i] < depth)
  /\ pc = "searching" => depth = Len(iters) + 1
  /\ pc = "finishing" =>
       /\ frames = << >>
       /\ Len(iters) = depth
       /\ Len(iters) >= Min(min_depth, max_depth)
       /\ \/ depth = max_depth
          \/ clockReads # << >> /\ clockReads[Len(clockReads)] = depth

\* C10 witness: the time limit had elapsed at the first permitted reading:
\* both iterations below and at min_depth completed, then the loop was left
\* short of max_depth.
C10_Witness ==
  /\ pc = "finishing" /\ min_depth = 2 /\ max_depth = 3
  /\ iters = << 1, 2 >> /\ clockReads = << 2 >>

\* C11: within one best_move call, the root score of the iteration of depth
\* d+1 is never below the root score of the iteration of depth d.
C11_DeepeningNeverWorse ==
  \A d \in 1..(Len(scores) - 1) : scores[d + 1] >= scores[d]

\* C12: evaluate returns -(MATE_VAL - ply) when the side to move is
\* checkmated, and 0 when the position is stalemate or has insufficient
\* material, whatever the pieces on the board.
C12_TerminalValues ==
  evCall.called =>
    /\ evCall.board.status = "checkmate"
         => evCall.value = -(MATE_VAL - evCall.ply)
    /\ (evCall.board.status = "stalemate" \/ evCall.board.insuff)
         => evCall.value = 0

\* C12 witness: a stalemate a queen up was valued 0, right after a
\* checkmate away from the root was valued with its ply.
C12_Witness ==
  /\ evCall.called /\ evPrev.called
  /\ evCall.board.status = "stalemate"
  /\ WhiteScore(evCall.board.pieces) > QUEEN
  /\ evCall.value = 0
  /\ evPrev.board.status = "checkmate" /\ evPrev.ply = MaxPly

\* C13: for pieces that make a non-terminal position with either side to
\* move, the value with White to move is the negation of the value with
\* Black to move.
NonTerminal(e) == e.status = "play" /\ ~e.insuff

C13_SideToMoveNegation ==
  (/\ evCall.called /\ evPrev.called
   /\ evCall.board.pieces = evPrev.board.pieces
   /\ evCall.board.turn # evPrev.board.turn
   /\ NonTerminal(evCall.board) /\ NonTerminal(evPrev.board))
    => evCall.value = -evPrev.value

\* C13 witness: the same pieces were valued for White and then for Black,
\* and the value is not 0.
C13_Witness ==
  /\ evCall.called /\ evPrev.called
  /\ evCall.board.pieces = evPrev.board.pieces
  /\ evPrev.board.turn = WHITE /\ evCall.board.turn = BLACK
  /\ NonTerminal(evCall.board) /\ NonTerminal(evPrev.board)
  /\ evCall.value < 0 /\ evCall.value = -evPrev.value

\* C14: when _search at depth >= 1 leaves its move loop, the table entry
\* of the position's key becomes {depth, best, flag, best_move} of that call,
\* whatever entry the key had (one of greater depth too); the key has that
\* one entry and no other key's entry changes.
C14_MostRecentWriteWins ==
  [][Storing =>
       /\ DOMAIN tt' = DOMAIN tt \cup {tkey(board)}
       /\ tt'[tkey(board)] = StoredEntry
       /\ \A k \in DOMAIN tt \ {tkey(board)} : tt'[k] = tt[k]]_vars

\* C14 witness: a call is about to store over an entry of greater depth.
C14_Witness ==
  /\ Storing
  /\ tkey(board) \in DOMAIN tt
  /\ tt[tkey(board)].depth > Top.depth
  /\ tt[tkey(board)] # StoredEntry

\* C15: when no move was recorded from the root's table entry in any
\* iteration and the position is not game-over, best_move returns the first
\* move of the position's legal-move enumeration.
C15_FallbackFirstLegalMove ==
  (Returned /\ best = NoMove /\ ~IsGameOver(NewBoard(result.root)))
    => result.mv = LegalMoves(NewBoard(result.root))[1]

\* C15 witness: a call returned the first legal move of a position that is
\* not game-over, having recorded no move.
C15_Witness ==
  /\ Returned /\ best = NoMove
  /\ ~IsGameOver(NewBoard(result.root))
  /\ result.mv = LegalMoves(NewBoard(result.root))[1]
  /\ result.mv # NoMove

\* C17: a best_move call returns the move, and its last iteration the root
\* score, that a fresh Engine with an empty table gives for the same
\* position after the same number of iterations, whatever earlier calls
\* left in the table.
C17_TableDoesNotChangeResult ==
  Returned =>
    LET fresh == BestMoveAfter(result.root, Len(iters), EmptyTable)
    IN /\ result.mv = fresh.mv
       /\ scores[Len(scores)] = fresh.scores[Len(iters)]

\* C16: an engine_reply that gets past its guard asks the book first: if
\* the reader is there and has entries for the position, an entry of greatest
\* weight is played and best_move is not called; if there is no reader, no
\* entry, or the lookup fails, best_move is called.
BookHas(reader, p) ==
  reader # 0 /\ ~Books[reader][p].raises /\ Books[reader][p].entries # << >>

C16_BookBeforeSearch ==
  gLast.ran =>
    IF BookHas(gBook, gLast.pos)
    THEN /\ ~gLast.searched
         /\ LET es == Books[gBook][gLast.pos].entries
            IN \E i \in 1..Len(es) :
                 /\ es[i].move = gLast.played
                 /\ \A j \in 1..Len(es) : es[j].weight <= es[i].weight
    ELSE gLast.searched

\* C16 witness: the book had three entries for the position, the first of
\* them lighter, and the reply played a heaviest one without searching.
C16_Witness ==
  /\ gLast.ran /\ BookHas(gBook, gLast.pos)
  /\ Len(Books[gBook][gLast.pos].entries) > 2
  /\ ~gLast.searched /\ gTT = EmptyTable
  /\ gLast.played # Books[gBook][gLast.pos].entries[1].move
  /\ gBoard.stack # << >>
  /\ gBoard.stack[Len(gBoard.stack)].mv = gLast.played

\* C18: at entry to _search with depth >= 1, an entry of the position's key
\* with entry.depth >= depth is used and no other: EXACT returns the stored
\* score; LOWER raises alpha to max(alpha, score), UPPER lowers beta to
\* min(beta, score), and if then alpha >= beta the stored score is returned;
\* a return from the probe makes no move and writes nothing.  An entry of
\* smaller depth (or none) leaves the window as it was and returns nothing.
AtProbe == Running("search", "entry") /\ Top.depth > 0

ProbeReturned(score) ==
  /\ frames' = Rest /\ ret' = << score >>
  /\ tt' = tt /\ board' = board

ProbeWindow(a, b) ==
  /\ Len(frames') = Len(frames)
  /\ frames'[Len(frames)].alpha = a /\ frames'[Len(frames)].beta = b
  /\ frames'[Len(frames)].alpha_orig = a
  /\ tt' = tt /\ board' = board

C18_ProbeUsesDeepEnoughEntry ==
  [][AtProbe =>
       LET key == tkey(board)
           alpha == Top.alpha
           beta == Top.beta
       IN IF key \in DOMAIN tt /\ tt[key].depth >= Top.depth
          THEN LET e == tt[key]
                   raised == IF alpha >= e.score THEN alpha ELSE e.score
                   lowered == IF beta <= e.score THEN beta ELSE e.score
               IN CASE e.flag = EXACT -> ProbeReturned(e.score)
                    [] e.flag = LOWER ->
                         IF raised >= beta THEN ProbeReturned(e.score)
                         ELSE ProbeWindow(raised, beta)
                    [] e.flag = UPPER ->
                         IF alpha >= lowered THEN ProbeReturned(e.score)
                         ELSE ProbeWindow(alpha, lowered)
          ELSE ProbeWindow(alpha, beta)]_vars

\* C18 witness: a LOWER entry of exactly the requested depth raised alpha
\* and the search went on in the narrowed window.
C18_Witness ==
  /\ Running("search", "loop")
  /\ Top.best_val = -Inf
  /\ tkey(board) \in DOMAIN tt
  /\ tt[tkey(board)].flag = LOWER
  /\ tt[tkey(board)].depth = Top.depth
  /\ Top.alpha_orig = tt[tkey(board)].score
  /\ Top.alpha_orig > Top.alpha0
  /\ Top.alpha_orig < Top.beta

\* C19: the flag _search stores is UPPER exactly when best <= alpha_orig,
\* LOWER exactly when best > alpha_orig and best >= beta, EXACT otherwise;
\* alpha_orig is alpha as it was when the move loop started; LOWER is stored
\* only when the loop was left by the cutoff, UPPER only when no move raised
\* alpha.
C19_StoredFlag ==
  /\ Storing =>
       LET bv == Top.best_val
           fl == StoredEntry.flag
       IN /\ fl \in {EXACT, LOWER, UPPER}
          /\ (fl = UPPER) <=> (bv <= Top.alpha_orig)
          /\ (fl = LOWER) <=> (bv > Top.alpha_orig /\ bv >= Top.beta)
          /\ (fl = EXACT) <=> (bv > Top.alpha_orig /\ bv < Top.beta)
          /\ fl = LOWER => Top.pc = "store"
          /\ fl = UPPER => Top.alpha = Top.alpha_orig
  /\ (Running("search", "loop") /\ Top.moves = SortedMoves(board))
       => Top.alpha = Top.alpha_orig
  /\ (frames # << >> /\ Top.fn = "search" /\ Top.pc # "entry")
       => Top.alpha >= Top.alpha_orig

\* C19 witness: a cutoff left moves unsearched and LOWER is about to be
\* stored, with alpha raised above a finite alpha_orig.
C19_Witness ==
  /\ Running("search", "store") /\ Top.moves # << >>
  /\ StoredEntry.flag = LOWER
  /\ Top.alpha_orig > -Inf /\ Top.alpha > Top.alpha_orig

\* C20: _search with depth >= 1 on a position without legal moves and
\* without a usable table entry starts no _search or _qsearch (so
\* evaluates nothing), returns -infinity and stores
\* {depth, -infinity, UPPER, None} under the position's key.
NoMoves == LegalMoves(board) = << >>

C20_NoLegalMovesSentinel ==
  [][/\ (AtProbe /\ NoMoves /\ ~Usable(tt, tkey(board), Top.depth))
          => /\ Len(frames') = Len(frames)
             /\ frames'[Len(frames)].fn = "search"
             /\ frames'[Len(frames)].pc = "loop"
             /\ frames'[Len(frames)].moves = << >>
             /\ board' = board /\ tt' = tt
     /\ (Running("search", "loop") /\ NoMoves)
          => /\ frames' = Rest
             /\ ret' = << -Inf >>
             /\ board' = board
             /\ DOMAIN tt' = DOMAIN tt \cup {tkey(board)}
             /\ tt'[tkey(board)] = TTEntry(Top.depth, -Inf, UPPER, NoMove)
             /\ \A k \in DOMAIN tt \ {tkey(board)} : tt'[k] = tt[k]]_vars

\* C20 witness: below the root, a checkmated position searched at depth 1
\* (the mating move was extended) has just returned -infinity and left its
\* entry.
C20_Witness ==
  /\ Running("search", "wait") /\ ret = << -Inf >>
  /\ IsCheckmate(board)
  /\ tkey(board) \in DOMAIN tt
  /\ tt[tkey(board)] = TTEntry(1, -Inf, UPPER, NoMove)

\* C21: during a best_move call on a position with legal moves, _search is
\* never entered with depth >= 1 on a position that has no legal moves:
\* every checkmate or stalemate in the tree is reached at depth 0 and scored
\* by evaluate.
C21_TerminalsScoredAtDepthZero ==
  (pc = "searching" /\ frames # << >>
     /\ LegalMoves(frames[1].entry) # << >>)
    => \A i \in 1..Len(frames) :
         ~(/\ frames[i].fn = "search"
           /\ frames[i].depth >= 1
           /\ LegalMoves(frames[i].entry) = << >>)

\* The interpreter keeps executing a call that has been made: every step of
\* a running best_move is eventually taken.  Calls are made by the caller at
\* its pleasure.
Run ==
  \/ SearchLeaf \/ SearchEntry \/ SearchMove \/ SearchAfter \/ SearchStore
  \/ QEntry \/ QMove \/ QAfter \/ QReturn
  \/ IterationEnd \/ BestMoveReturn

SpecLive == Init /\ [][Next]_vars /\ WF_vars(Run)

\* No legal move is a capture, a promotion or a checking move.
Quiet(b) ==
  \A i \in 1..Len(LegalMoves(b)) :
    LET m == LegalMoves(b)[i]
    IN ~(IsCapture(b, m) \/ m.promo \/ GivesCheck(b, m))

\* C22: every _search and _qsearch call returns and every best_move call
\* returns, although a checking move keeps the remaining depth and
\* quiescence has no depth cap; and _qsearch on a position without capture,
\* promotion or checking move evaluates once and returns without making a
\* move.
C22_SearchTerminates ==
  /\ (frames # << >>) ~> (frames = << >>)
  /\ (pc # "idle") ~> (pc = "idle")
  /\ [][/\ (Running("qsearch", "entry") /\ Quiet(board))
             => /\ board' = board /\ tt' = tt
                /\ \/ frames' = Rest
                   \/ /\ Len(frames') = Len(frames)
                      /\ frames'[Len(frames)].pc = "loop"
                      /\ frames'[Len(frames)].moves = << >>
        /\ (Running("qsearch", "loop") /\ Quiet(board))
             => /\ frames' = Rest
                /\ board' = board /\ tt' = tt]_vars

\* C22 witness: on a line of three plies with two checks, the second
\* checking move (no mate) was searched at the depth of its parent
\* (depth - 1 + 1, at least 2) and that search has returned.
C22_Witness ==
  /\ Running("search", "wait") /\ ret # << >>
  /\ IsCheck(board) /\ LegalMoves(board) # << >>
  /\ Top.depth >= 2
  /\ Len(board.stack) = 3
  /\ IsCheck(NewBoard(board.stack[2].prev))

\* _qsearch called on its own: the positions and the window bounds it is
\* called with.
QRoots == {1, 7, 11, 12, 13, 25, 26, 28, 31}
QBounds == {-Inf, -250, -50, 25, 75, 200, Inf}

\* A call _qsearch(board, alpha, beta, ply) (line 98) on an idle Engine.
QCall(p, alpha, beta, ply) ==
  /\ pc = "idle" /\ frames = << >>
  /\ board' = NewBoard(p)
  /\ frames' = << Frame("qsearch", NewBoard(p), 0, alpha, beta, ply) >>
  /\ ret' = << >>
  /\ UNCHANGED tt
  /\ DriverUnchanged

NextQ ==
  \/ \E p \in QRoots, alpha \in QBounds, beta \in QBounds, ply \in 0..MaxPly :
       alpha < beta /\ QCall(p, alpha, beta, ply)
  \/ QEntry
  \/ QMove
  \/ QAfter
  \/ QReturn

SpecQ == Init /\ [][NextQ]_vars

\* C23: a _qsearch call entered with alpha < beta returns beta if the
\* stand-pat evaluation is >= beta or a tactical move scores >= beta;
\* otherwise every tactical move has been scored and it returns the maximum
\* of alpha, the stand-pat value and those scores.  The result lies in
\* [alpha, beta], and the only moves _qsearch makes are legal captures,
\* promotions and checking moves.
QReturning == frames # << >> /\ Top.fn = "qsearch" /\ Returns

QStand == IF Top.pc = "entry" THEN Evaluate(board, Top.ply) ELSE Top.stand[1]

QScores == IF Top.pc = "wait" THEN Append(Top.seen, -ret[1]) ELSE Top.seen

SetMax(S) == CHOOSE x \in S : \A y \in S : y <= x

TacticalCount(b) ==
  Cardinality({i \in 1..Len(LegalMoves(b)) :
                 LET m == LegalMoves(b)[i]
                 IN IsCapture(b, m) \/ m.promo \/ GivesCheck(b, m)})

C23_QuiescenceValue ==
  [][/\ (QReturning /\ Top.alpha0 < Top.beta0)
          => LET cut == \/ QStand >= Top.beta0
                        \/ \E i \in 1..Len(QScores) : QScores[i] >= Top.beta0
                 v == ret'[1]
             IN /\ cut => v = Top.beta0
                /\ ~cut => /\ Len(QScores) = TacticalCount(Top.entry)
                           /\ v = SetMax({Top.alpha0, QStand}
                                   \cup {QScores[i] : i \in 1..Len(QScores)})
                /\ Top.alpha0 <= v /\ v <= Top.beta0
     /\ (frames # << >> /\ Top.fn = "qsearch"
           /\ Len(board'.stack) > Len(board.stack))
          => LET m == board'.stack[Len(board'.stack)].mv
             IN /\ IsLegal(board, m)
                /\ IsCapture(board, m) \/ m.promo \/ GivesCheck(board, m)
                /\ board' = Push(board, m)]_vars

\* C23 witness: in a finite window, a _qsearch call on a position with three
\* tactical moves and a quiet one has scored the three, the first no better
\* than the stand-pat value and the second between it and beta, and is
\* about to return the greatest.
C23_Witness ==
  /\ Running("qsearch", "loop") /\ Top.moves = << >>
  /\ Top.alpha0 > -Inf /\ Top.beta0 < Inf
  /\ Len(Top.seen) = 3 /\ Len(LegalMoves(board)) = 4
  /\ Top.stand[1] > Top.alpha0
  /\ Top.seen[1] = Top.stand[1]
  /\ Top.seen[2] > Top.stand[1]
  /\ Top.alpha = Top.seen[2]

\* _search called on its own, between best_move calls on the same Engine:
\* the positions and the windows it is called with.
SRoots == {1, 7, 11, 21}
SWindows == {<< -Inf, Inf >>, << -50, 75 >>}

\* A call _search(board, depth, alpha, beta, 0) (line 115) on an idle
\* Engine, and the caller taking its value.
SCall(p, d, alpha, beta) ==
  /\ pc = "idle" /\ calls < MaxCalls
  /\ board' = NewBoard(p)
  /\ frames' = << Frame("search", NewBoard(p), d, alpha, beta, 0) >>
  /\ ret' = << >>
  /\ pc' = "direct"
  /\ calls' = calls + 1
  /\ UNCHANGED << tt, depth, max_depth, min_depth, best, result, iters,
                  clockReads, scores, prev, nnVars, evalVars, guiVars >>

SDone ==
  /\ pc = "direct" /\ frames = << >> /\ ret # << >>
  /\ pc' = "idle"
  /\ UNCHANGED << board, tt, frames, ret, depth, max_depth, min_depth, best,
                  result, calls, iters, clockReads, scores, prev, nnVars,
                  evalVars, guiVars >>

NextS ==
  \/ Next
  \/ \E p \in SRoots, d \in 1..MaxDepth, w \in SWindows :
       SCall(p, d, w[1], w[2])
  \/ SDone

SpecS == Init /\ [][NextS]_vars

\* C24: when a _search call with depth >= 1 returns, the table holds an
\* entry for the key of the call's board with entry.depth >= the depth
\* requested; so after each iteration of best_move the root has an entry of
\* at least that iteration's depth; also when the position recurred deeper
\* in the tree and was written there at a smaller depth.
SearchReturning ==
  frames # << >> /\ Top.fn = "search" /\ Top.depth >= 1 /\ Returns

C24_EntryAtLeastRequestedDepth ==
  [][/\ SearchReturning
          => /\ tkey(Top.entry) \in DOMAIN tt'
             /\ tt'[tkey(Top.entry)].depth >= Top.depth
     /\ (pc = "searching" /\ frames = << >> /\ ret # << >>)
          => /\ tkey(board) \in DOMAIN tt
             /\ tt[tkey(board)].depth >= depth]_vars

\* C24 witness: the position of the outermost call recurred in its own tree
\* and was written there at depth 1; the outermost call, of depth 3, is
\* about to store over that entry.
C24_Witness ==
  /\ Len(frames) = 1 /\ Storing
  /\ Top.depth = 3
  /\ tkey(board) \in DOMAIN tt
  /\ tt[tkey(board)].depth = 1
  /\ calls = 1

\* A step of the window that pushes a move, the move pushed, a step in which
\* a timer fired (engine_reply ran), and a step that replays the top of the
\* redo stack.
Pushed == Len(gBoard'.stack) > Len(gBoard.stack)

PushedMove == gBoard'.stack[Len(gBoard'.stack)].mv

TimerFired ==
  \/ gStartShot /\ ~gStartShot'
  \/ gReplyTimer /\ ~gReplyTimer'

IsRedo ==
  /\ gRedo # << >>
  /\ PushedMove = gRedo[Len(gRedo)]
  /\ gRedo' = SubSeq(gRedo, 1, Len(gRedo) - 1)

\* C25: whatever the order of clicks, Left/Right key presses and timer
\* firings, engine_reply pushes no move when the game is over or when it is
\* the human's turn, and a move of the human (a push that is neither the
\* engine's nor a redo) is legal, starts from the selected square and is
\* made on the human's turn.
C25_OnlyTheSideToMovePushes ==
  [][/\ TimerFired
          => IF IsGameOver(gBoard) \/ Turn(gBoard) = gHuman
             THEN gBoard' = gBoard /\ gRedo' = gRedo
             ELSE Pushed => gBoard' = Push(gBoard, PushedMove)
     /\ (Pushed /\ ~TimerFired /\ ~IsRedo)
          => /\ IsLegal(gBoard, PushedMove)
             /\ Turn(gBoard) = gHuman
             /\ gSelected = FromSquare(PushedMove)
             /\ gBoard' = Push(gBoard, PushedMove)]_vars

\* C25 witness: the human moved and took the move back before the reply
\* timer fired; the timer then fired on the human's turn and engine_reply
\* pushed nothing.
C25_Witness ==
  /\ gHuman = Turn(gBoard)
  /\ ~gReplyTimer /\ ~gStartShot
  /\ gLast = NoReply
  /\ gBoard.stack = << >> /\ Len(gRedo) = 1
  /\ ~IsGameOver(gBoard)
  /\ ~IsGameOver(NewBoard(gRedo[1].to))

\* The moves on the board's stack, the position the game started from, and
\* a sequence in reverse order.
StackMoves == [i \in 1..Len(gBoard.stack) |-> gBoard.stack[i].mv]

StartPos ==
  IF gBoard.stack = << >> THEN gBoard.pos ELSE gBoard.stack[1].prev

Reverse(s) == [i \in 1..Len(s) |-> s[Len(s) + 1 - i]]

\* The moves ms are legal one after the other from position p.
RECURSIVE LineLegal(_, _)
LineLegal(p, ms) ==
  \/ ms = << >>
  \/ /\ IsLegal(NewBoard(p), Head(ms))
     /\ LineLegal(Head(ms).to, Tail(ms))

\* The position reached from p by the moves ms.
RECURSIVE LineEnd(_, _)
LineEnd(p, ms) == IF ms = << >> THEN p ELSE LineEnd(Head(ms).to, Tail(ms))

\* C26: in every state of the window the move stack followed by the redo
\* stack in reverse is one legal line from the starting position, and the
\* board stands where the stack's moves lead; an undo leaves a state from
\* which a redo gives back the board exactly; a redo replays the top of the
\* redo stack, a legal move there; every other push (a new move of the
\* human or of the engine) leaves the redo stack empty.
C26_StackAndRedoOneLine ==
  /\ [](/\ LineLegal(StartPos, StackMoves \o Reverse(gRedo))
        /\ LineEnd(StartPos, StackMoves) = gBoard.pos)
  /\ [][/\ Len(gBoard'.stack) < Len(gBoard.stack)
             => /\ gRedo' = Append(gRedo, gBoard.stack[Len(gBoard.stack)].mv)
                /\ gBoard' = Pop(gBoard)
                /\ Push(gBoard', gRedo'[Len(gRedo')]) = gBoard
        /\ (Pushed /\ IsRedo)
             => /\ IsLegal(gBoard, PushedMove)
                /\ gBoard' = Push(gBoard, PushedMove)
        /\ (Pushed /\ ~IsRedo) => gRedo' = << >>]_vars

\* C26 witness: the human moved, the engine replied, and the reply was taken
\* back: one move on the board, the engine's reply on the redo stack.
C26_Witness ==
  /\ Len(gBoard.stack) = 1 /\ Len(gRedo) = 1
  /\ gLast.ran /\ gLast.played = gRedo[1]
  /\ gLast.pos = gBoard.pos
  /\ gHuman # Turn(gBoard)
  /\ ~gReplyTimer

\* A timer that is running fires: the start single-shot of __init__ and
\* reply_timer each call engine_reply 200 ms after they were started.  The
\* user clicks and presses keys at will, or not at all.
TimersFire ==
  /\ EngineReply(TRUE) \/ EngineReply(FALSE)
  /\ UNCHANGED << searchVars, nnVars, evalVars >>

SpecGuiLive == InitGui /\ [][NextGui]_vars /\ WF_vars(TimersFire)

EngineToMove == ~IsGameOver(gBoard) /\ Turn(gBoard) # gHuman

\* C27: whenever the engine is to move and the game is not over, the engine
\* eventually replies without further user input (or the user changes the
\* position first), also when the engine came to move by an undo or a redo.
C27_EngineEventuallyReplies == EngineToMove ~> ~EngineToMove

====
